---- MODULE Spec2Model ----
(***************************************************************************)
(* DatabaseManager (src/unnamed/part_000, lines 132-303): the registry of  *)
(* named mssql connection pools (setPool, getPool, closePool,              *)
(* closeAllPools), the command executor (runCommand, executeWithEntity,    *)
(* bulkInsert), the transaction coordinator executeTransaction and the     *)
(* retry supervisor retryOperation.                                        *)
(*                                                                         *)
(* JavaScript runs each handler without interruption up to its next await; *)
(* every action below is one such run.  What the mssql driver answers (a   *)
(* connect, begin, request, commit or rollback succeeding or failing) is   *)
(* the environment's choice.                                               *)
(***************************************************************************)
EXTENDS Integers, Sequences, FiniteSets, TLC

\* ------------------------------------------------------------------ bounds
NumProcs == 2
MaxPools == 2
MaxOps == 2
MaxRetries == 3
MaxDelay == 2

\* ------------------------------------------------------- program constants
DefaultRetries == 3
DefaultDelay == 100

Procs == 1..NumProcs
\* The caller that issues the executeTransaction, command, setPool,
\* closePool and closeAllPools calls (every caller calls getPool).
TxProcs == {1}
\* The caller that issues getPool calls beside the setPool, closePool and
\* closeAllPools calls of caller 1.
PoolProcs == {2}
\* The pool names of readwriteConfig.
Names == {"readPool", "writePool"}

VARIABLES
    pools,      \* this.pools: a map, pool name -> pool object (its index in objs)
    objs,       \* every ConnectionPool constructed so far, in construction order
    pc,         \* per caller: where its call stands
    call,       \* per caller: the call it issued
    loc,        \* per caller: the local `pool` of getPool / executeTransaction
    result,     \* per caller: what its call returned or threw
    trace,      \* per caller: the driver calls and logger.error calls of its call
    opIdx,      \* per caller: the operation the transaction loop is at
    caught,     \* per caller: the error executeTransaction's catch block holds
    pend,       \* per caller: the close() promises its closeAllPools still awaits
    rpc,        \* retryOperation: where the call stands
    retries,    \* retryOperation: the current `retries` argument
    delay,      \* retryOperation: the current `delay` argument
    attempts,   \* retryOperation: invocations of `operation` so far
    waits,      \* retryOperation: the delays handed to setTimeout, in order
    rInit,      \* retryOperation: the arguments of the outermost call
    rRes,       \* retryOperation: the attempt whose result or error is surfaced
    outcomes    \* retryOperation: what each settled attempt did (TRUE: it succeeded)

poolVars == <<pools, objs>>
procVars == <<pc, call, loc, result, trace, opIdx, caught, pend>>
retryVars == <<rpc, retries, delay, attempts, waits, rInit, rRes, outcomes>>
vars == <<pools, objs, pc, call, loc, result, trace, opIdx, caught, pend,
          rpc, retries, delay, attempts, waits, rInit, rRes, outcomes>>

\* ------------------------------------------------------------------ values
NoErr == [kind |-> "none", k |-> 0]
ConfigErr == [kind |-> "config", k |-> 0]
TypeErr == [kind |-> "type", k |-> 0]
ConnectErr == [kind |-> "connect", k |-> 0]
BeginErr == [kind |-> "begin", k |-> 0]
CommitErr == [kind |-> "commit", k |-> 0]
RollbackErr == [kind |-> "rollback", k |-> 0]
OpErr(k) == [kind |-> "op", k |-> k]
BindErr(k) == [kind |-> "bind", k |-> k]
NotFoundErr == [kind |-> "notFound", k |-> 0]
CloseErr(i) == [kind |-> "close", k |-> i]
ExecErr == [kind |-> "exec", k |-> 0]
TableErr == [kind |-> "table", k |-> 0]
BulkErr == [kind |-> "bulk", k |-> 0]
EntityErr == [kind |-> "entity", k |-> 0]

NoCall == [op |-> "none", name |-> "", config |-> FALSE, nOps |-> 0, stale |-> {}]
NoResult == [status |-> "none", pool |-> 0, err |-> NoErr]
Ok(i) == [status |-> "ok", pool |-> i, err |-> NoErr]
Err(e) == [status |-> "err", pool |-> 0, err |-> e]

\* A logger.error call, named by its source line.
ELog(line) == <<"elog", line>>

\* ---------------------------------------------------------------- registry
Has(name) == name \in DOMAIN pools

MapSet(m, name, i) == [n \in DOMAIN m \cup {name} |-> IF n = name THEN i ELSE m[n]]

MapDelete(m, name) == [n \in DOMAIN m \ {name} |-> m[n]]

\* close: "no" until the underlying close() is called, then "called", then
\* "ok" or "failed" as it settles.
NewPool(name) ==
    [name |-> name, connected |-> FALSE, connecting |-> FALSE, close |-> "no"]

\* new DatabaseManager(pools): setPool for every configured name.
RECURSIVE Construct(_, _, _)
Construct(todo, m, os) ==
    IF todo = {} THEN <<m, os>>
    ELSE LET name == CHOOSE n \in todo : TRUE
         IN Construct(todo \ {name}, MapSet(m, name, Len(os) + 1), Append(os, NewPool(name)))

\* setPool's guard: it throws unless both name and config are given.
SetPoolThrows(name, config) == name = "" \/ ~config

\* setPool's effect on the registry and the pool objects.
SetPool(name, config) ==
    IF SetPoolThrows(name, config)
    THEN /\ pools' = IF name # "" /\ Has(name) THEN MapDelete(pools, name) ELSE pools
         /\ objs' = objs
    ELSE /\ objs' = Append(objs, NewPool(name))
         /\ pools' = MapSet(pools, name, Len(objs) + 1)

\* The pool objects whose underlying close() has been called.
Stale == {i \in DOMAIN objs : objs[i].close # "no"}

\* ----------------------------------------------------------------- callers
Call(p, c) ==
    /\ pc[p] = "idle"
    /\ pc' = [pc EXCEPT ![p] = "gp_enter"]
    /\ call' = [call EXCEPT ![p] = c]
    /\ UNCHANGED <<poolVars, loc, result, trace, opIdx, caught, retryVars, pend>>

CallGetPool(p) ==
    \E name \in Names, config \in BOOLEAN :
        Call(p, [op |-> "getPool", name |-> name, config |-> config, nOps |-> 0,
                 stale |-> Stale])

CallTx(p) ==
    \E name \in Names, n \in 0..MaxOps :
        Call(p, [op |-> "tx", name |-> name, config |-> FALSE, nOps |-> n,
                 stale |-> Stale])

\* The caller takes its result; it is free to issue another call.
Return(p) ==
    /\ pc[p] = "done"
    /\ pc' = [pc EXCEPT ![p] = "idle"]
    /\ call' = [call EXCEPT ![p] = NoCall]
    /\ loc' = [loc EXCEPT ![p] = 0]
    /\ result' = [result EXCEPT ![p] = NoResult]
    /\ trace' = [trace EXCEPT ![p] = <<>>]
    /\ opIdx' = [opIdx EXCEPT ![p] = 0]
    /\ caught' = [caught EXCEPT ![p] = NoErr]
    /\ UNCHANGED <<poolVars, retryVars, pend>>

\* ----------------------------------------------------------------- getPool
\* The logger.error calls made when getPool throws: getPool's own catch
\* (line 186), then the catch of runCommand (line 225) or bulkInsert (line
\* 270) around `await this.getPool(poolName)`.
ResolveFailureLogs(op) ==
    IF op \in {"run", "entity"} THEN <<ELog(186), ELog(225)>>
    ELSE IF op = "bulk" THEN <<ELog(186), ELog(270)>>
    ELSE <<ELog(186)>>

\* getPool throws e: its catch logs and rethrows; the catch of runCommand
\* and bulkInsert logs and rethrows as well; executeTransaction has no
\* catch around its getPool call.
GetPoolThrow(p, e) ==
    /\ pc' = [pc EXCEPT ![p] = "done"]
    /\ result' = [result EXCEPT ![p] = Err(e)]
    /\ trace' = [trace EXCEPT ![p] = @ \o ResolveFailureLogs(call[p].op)]
    /\ UNCHANGED <<loc, opIdx, caught>>

RunDispatchFirstPool(p, i) ==
    \E bound \in BOOLEAN :
        IF bound
        THEN /\ pc' = [pc EXCEPT ![p] = "rc_exec"]
             /\ loc' = [loc EXCEPT ![p] = 1]
             /\ trace' = [trace EXCEPT ![p] = Append(@, <<"exec", 1>>)]
             /\ UNCHANGED <<result, opIdx, caught>>
        ELSE /\ pc' = [pc EXCEPT ![p] = "done"]
             /\ loc' = [loc EXCEPT ![p] = 1]
             /\ result' = [result EXCEPT ![p] = Err(BindErr(0))]
             /\ trace' = [trace EXCEPT ![p] = @ \o <<<<"bindErr", 0>>, ELog(225)>>]
             /\ UNCHANGED <<opIdx, caught>>

\* runCommand lines 220-223 on pool i: pool.request(), assignParams (which
\* may throw, into the catch of line 224), then request[commandType](command)
\* is called and its promise returned without an await.
RunDispatch(p, i) ==
    \E bound \in BOOLEAN :
        IF bound
        THEN /\ pc' = [pc EXCEPT ![p] = "rc_exec"]
             /\ loc' = [loc EXCEPT ![p] = i]
             /\ trace' = [trace EXCEPT ![p] = Append(@, <<"exec", i>>)]
             /\ UNCHANGED <<result, opIdx, caught>>
        ELSE /\ pc' = [pc EXCEPT ![p] = "done"]
             /\ loc' = [loc EXCEPT ![p] = i]
             /\ result' = [result EXCEPT ![p] = Err(BindErr(0))]
             /\ trace' = [trace EXCEPT ![p] = @ \o <<<<"bindErr", 0>>, ELog(225)>>]
             /\ UNCHANGED <<opIdx, caught>>

\* ------------------------------------------------------ bulkInsert's table
\* The value of a property an object does not have.
Undefined == "undefined"

\* An entity object with the properties f, and a null entity.
Entity(f) == [null |-> FALSE, fields |-> f]
NullEntity == [null |-> TRUE, fields |-> <<>>]

\* entity[col.name] (line 263).
Cell(entity, col) ==
    IF col \in DOMAIN entity.fields THEN entity.fields[col] ELSE Undefined

\* columns.map(col => entity[col.name]) (line 263): one cell per column, in
\* the order of the columns.
Row(columns, entity) == [j \in 1..Len(columns) |-> Cell(entity, columns[j])]

\* Reading a property of null throws a TypeError; with no column no
\* property is read.
RowThrows(columns, entity) == entity.null /\ Len(columns) > 0

RECURSIVE AddRowsReversed(_, _, _)
AddRowsReversed(rows, columns, entities) ==
    IF entities = <<>> THEN rows
    ELSE AddRowsReversed(<<Row(columns, Head(entities))>> \o rows, columns, Tail(entities))

\* entities.forEach(entity => table.rows.add(...)) (lines 262-264).
RECURSIVE AddRows(_, _, _)
AddRows(rows, columns, entities) ==
    IF entities = <<>> THEN rows
    ELSE AddRows(Append(rows, Row(columns, Head(entities))), columns, Tail(entities))

\* Building the table throws.
TableThrows(columns, entities) ==
    \E i \in DOMAIN entities : RowThrows(columns, entities[i])

\* The rows of the mssql.Table built from columns and entities (lines 258-264).
BuildRows(columns, entities) == AddRows(<<>>, columns, entities)

\* bulkInsert lines 258-267 on pool i: the table is built from the call's
\* columns and entities (which may throw, into the catch of line 269), then
\* request.bulk(table) is called and awaited.
BulkDispatch(p, i) ==
    IF ~TableThrows(call[p].columns, call[p].entities)
    THEN /\ pc' = [pc EXCEPT ![p] = "bk_bulk"]
         /\ loc' = [loc EXCEPT ![p] = i]
         /\ trace' = [trace EXCEPT ![p] =
                Append(@, <<"bulk", BuildRows(call[p].columns, call[p].entities)>>)]
         /\ UNCHANGED <<result, opIdx, caught>>
    ELSE /\ pc' = [pc EXCEPT ![p] = "done"]
         /\ loc' = [loc EXCEPT ![p] = i]
         /\ result' = [result EXCEPT ![p] = Err(TableErr)]
         /\ trace' = [trace EXCEPT ![p] = @ \o <<<<"tableErr", 0>>, ELog(270)>>]
         /\ UNCHANGED <<opIdx, caught>>

\* getPool returns pool i: a getPool caller is done; executeTransaction
\* constructs the Transaction and calls begin(); runCommand (also on behalf
\* of executeWithEntity) and bulkInsert go on with their request.
GetPoolReturn(p, i) ==
    IF call[p].op \in {"run", "entity"} THEN RunDispatch(p, i)
    ELSE IF call[p].op = "bulk" THEN BulkDispatch(p, i)
    ELSE IF call[p].op = "tx"
    THEN /\ pc' = [pc EXCEPT ![p] = "tx_begin"]
         /\ loc' = [loc EXCEPT ![p] = i]
         /\ trace' = [trace EXCEPT ![p] = Append(@, <<"begin", 0>>)]
         /\ UNCHANGED <<result, opIdx, caught>>
    ELSE /\ pc' = [pc EXCEPT ![p] = "done"]
         /\ loc' = [loc EXCEPT ![p] = i]
         /\ result' = [result EXCEPT ![p] = Ok(i)]
         /\ UNCHANGED <<trace, opIdx, caught>>

GetPoolResolveIgnoreConnecting(p) ==
    IF ~Has(call[p].name)
    THEN GetPoolThrow(p, TypeErr) /\ UNCHANGED poolVars
    ELSE LET i == pools[call[p].name]
         IN IF ~objs[i].connected
            THEN /\ objs' = [objs EXCEPT ![i].connecting = TRUE]
                 /\ pc' = [pc EXCEPT ![p] = "gp_connect"]
                 /\ loc' = [loc EXCEPT ![p] = i]
                 /\ trace' = [trace EXCEPT ![p] = Append(@, <<"connect", i>>)]
                 /\ UNCHANGED <<pools, result, opIdx, caught>>
            ELSE GetPoolReturn(p, i) /\ UNCHANGED poolVars

\* Lines 180-184: read the registry, connect unless connected or connecting.
GetPoolResolve(p) ==
    IF ~Has(call[p].name)
    THEN GetPoolThrow(p, TypeErr) /\ UNCHANGED poolVars
    ELSE LET i == pools[call[p].name]
         IN IF ~objs[i].connected /\ ~objs[i].connecting
            THEN /\ objs' = [objs EXCEPT ![i].connecting = TRUE]
                 /\ pc' = [pc EXCEPT ![p] = "gp_connect"]
                 /\ loc' = [loc EXCEPT ![p] = i]
                 /\ trace' = [trace EXCEPT ![p] = Append(@, <<"connect", i>>)]
                 /\ UNCHANGED <<pools, result, opIdx, caught>>
            ELSE GetPoolReturn(p, i) /\ UNCHANGED poolVars

GetPoolEnterNoCheck(p) ==
    /\ pc[p] = "gp_enter"
    /\ IF ~call[p].config
       THEN GetPoolThrow(p, ConfigErr) /\ UNCHANGED poolVars
       ELSE /\ Len(objs) < MaxPools
            /\ SetPool(call[p].name, call[p].config)
            /\ pc' = [pc EXCEPT ![p] = "gp_afterSet"]
            /\ trace' = [trace EXCEPT ![p] = Append(@, <<"new", Len(objs) + 1>>)]
            /\ UNCHANGED <<loc, result, opIdx, caught>>
    /\ UNCHANGED <<call, retryVars, pend>>

GetPoolEnterDefaultConfig(p) ==
    /\ pc[p] = "gp_enter"
    /\ IF ~Has(call[p].name)
       THEN /\ Len(objs) < MaxPools
            /\ SetPool(call[p].name, TRUE)
            /\ pc' = [pc EXCEPT ![p] = "gp_afterSet"]
            /\ trace' = [trace EXCEPT ![p] = Append(@, <<"new", Len(objs) + 1>>)]
            /\ UNCHANGED <<loc, result, opIdx, caught>>
       ELSE GetPoolResolve(p)
    /\ UNCHANGED <<call, retryVars, pend>>

\* Lines 172-179 up to the first await: the has() test and setPool run in
\* one piece (setPool has no await of its own).
GetPoolEnter(p) ==
    /\ pc[p] = "gp_enter"
    /\ IF ~Has(call[p].name)
       THEN IF ~call[p].config
            THEN GetPoolThrow(p, ConfigErr) /\ UNCHANGED poolVars
            ELSE /\ Len(objs) < MaxPools
                 /\ SetPool(call[p].name, call[p].config)
                 /\ pc' = [pc EXCEPT ![p] = "gp_afterSet"]
                 /\ trace' = [trace EXCEPT ![p] = Append(@, <<"new", Len(objs) + 1>>)]
                 /\ UNCHANGED <<loc, result, opIdx, caught>>
       ELSE GetPoolResolve(p)
    /\ UNCHANGED <<call, retryVars, pend>>

\* After `await this.setPool(...)`.
GetPoolAfterSet(p) ==
    /\ pc[p] = "gp_afterSet"
    /\ GetPoolResolve(p)
    /\ UNCHANGED <<call, retryVars, pend>>

GetPoolConnectDoneDropOnFailure(p) ==
    /\ pc[p] = "gp_connect"
    /\ \E ok \in BOOLEAN :
        /\ \E conn \in (IF ok /\ objs[loc[p]].close # "no" THEN BOOLEAN ELSE {ok}) :
            objs' = [objs EXCEPT ![loc[p]].connecting = FALSE, ![loc[p]].connected = conn]
        /\ IF ok
           THEN GetPoolReturn(p, loc[p]) /\ pools' = pools
           ELSE GetPoolThrow(p, ConnectErr) /\ pools' = MapDelete(pools, call[p].name)
    /\ UNCHANGED <<call, retryVars, pend>>

\* `await pool.connect()` settles: the pool stops connecting, and is
\* connected when the connect succeeded.  Whether a pool that was closed
\* while it connected ends up connected depends on the driver's version.
GetPoolConnectDone(p) ==
    /\ pc[p] = "gp_connect"
    /\ \E ok \in BOOLEAN :
        /\ \E conn \in (IF ok /\ objs[loc[p]].close # "no" THEN BOOLEAN ELSE {ok}) :
            objs' = [objs EXCEPT ![loc[p]].connecting = FALSE, ![loc[p]].connected = conn]
        /\ IF ok THEN GetPoolReturn(p, loc[p]) ELSE GetPoolThrow(p, ConnectErr)
    /\ UNCHANGED <<pools, call, retryVars, pend>>

\* ----------------------------------------------------------------- setPool
\* The logger.error calls of setPool's catch block (lines 161-167).
SetPoolFailureLogs(name) ==
    IF name # "" /\ Has(name) THEN <<ELog(163), ELog(166)>> ELSE <<ELog(166)>>

\* A caller calls setPool(name, config) itself; the name or the config may
\* be missing.  setPool has no await: the whole call is one run.
CallSetPool(p) ==
    /\ pc[p] = "idle"
    /\ \E name \in Names \cup {""}, config \in BOOLEAN :
        /\ IF SetPoolThrows(name, config) THEN TRUE ELSE Len(objs) < MaxPools
        /\ SetPool(name, config)
        /\ call' = [call EXCEPT ![p] = [op |-> "setPool", name |-> name, config |-> config,
                                        nOps |-> 0, stale |-> Stale]]
        /\ result' = [result EXCEPT ![p] =
                        IF SetPoolThrows(name, config) THEN Err(ConfigErr) ELSE Ok(0)]
        /\ trace' = [trace EXCEPT ![p] =
                        IF SetPoolThrows(name, config) THEN SetPoolFailureLogs(name)
                        ELSE <<<<"new", Len(objs) + 1>>>>]
    /\ pc' = [pc EXCEPT ![p] = "done"]
    /\ UNCHANGED <<loc, opIdx, caught, pend, retryVars>>

\* --------------------------------------------------- closePool, closeAllPools
HookDeleteNothing(m, ns) == m

\* The close hook's `this.pools.delete(name)` (line 155), for the hooks of
\* the pools registered under the names ns.
HookDelete(m, ns) == [n \in DOMAIN m \ ns |-> m[n]]

\* The underlying close() of the pools S is called (line 156): the driver
\* marks them neither connected nor connecting at once.
CloseCalled(os, S) ==
    [i \in DOMAIN os |->
        IF i \in S
        THEN [os[i] EXCEPT !.connected = FALSE, !.connecting = FALSE, !.close = "called"]
        ELSE os[i]]

\* The close() calls of the pools S as trace events, in registry order.
RECURSIVE CloseEvents(_)
CloseEvents(S) ==
    IF S = {} THEN <<>>
    ELSE LET i == CHOOSE x \in S : \A y \in S : x <= y
         IN <<<<"close", i>>>> \o CloseEvents(S \ {i})

CallClosePoolSilent(p) ==
    /\ pc[p] = "idle"
    /\ \E name \in Names :
        /\ call' = [call EXCEPT ![p] = [op |-> "closePool", name |-> name, config |-> FALSE,
                                        nOps |-> 0, stale |-> Stale]]
        /\ IF ~Has(name)
           THEN /\ pc' = [pc EXCEPT ![p] = "done"]
                /\ result' = [result EXCEPT ![p] = Ok(0)]
                /\ UNCHANGED <<poolVars, loc, trace>>
           ELSE /\ pools' = HookDelete(pools, {name})
                /\ objs' = CloseCalled(objs, {pools[name]})
                /\ pc' = [pc EXCEPT ![p] = "cp_close"]
                /\ loc' = [loc EXCEPT ![p] = pools[name]]
                /\ trace' = [trace EXCEPT ![p] = CloseEvents({pools[name]})]
                /\ UNCHANGED result
    /\ UNCHANGED <<opIdx, caught, pend, retryVars>>

CallClosePoolNoHook(p) ==
    /\ pc[p] = "idle"
    /\ \E name \in Names :
        /\ call' = [call EXCEPT ![p] = [op |-> "closePool", name |-> name, config |-> FALSE,
                                        nOps |-> 0, stale |-> Stale]]
        /\ IF ~Has(name)
           THEN /\ pc' = [pc EXCEPT ![p] = "done"]
                /\ result' = [result EXCEPT ![p] = Err(NotFoundErr)]
                /\ UNCHANGED <<poolVars, loc, trace>>
           ELSE /\ pools' = pools
                /\ objs' = CloseCalled(objs, {pools[name]})
                /\ pc' = [pc EXCEPT ![p] = "cp_close"]
                /\ loc' = [loc EXCEPT ![p] = pools[name]]
                /\ trace' = [trace EXCEPT ![p] = CloseEvents({pools[name]})]
                /\ UNCHANGED result
    /\ UNCHANGED <<opIdx, caught, pend, retryVars>>

\* closePool(name) up to its await (lines 192-197): throw when the name has
\* no entry; otherwise the pool's close hook runs: it deletes the entry and
\* calls the underlying close().
CallClosePool(p) ==
    /\ pc[p] = "idle"
    /\ \E name \in Names :
        /\ call' = [call EXCEPT ![p] = [op |-> "closePool", name |-> name, config |-> FALSE,
                                        nOps |-> 0, stale |-> Stale]]
        /\ IF ~Has(name)
           THEN /\ pc' = [pc EXCEPT ![p] = "done"]
                /\ result' = [result EXCEPT ![p] = Err(NotFoundErr)]
                /\ UNCHANGED <<poolVars, loc, trace>>
           ELSE /\ pools' = HookDelete(pools, {name})
                /\ objs' = CloseCalled(objs, {pools[name]})
                /\ pc' = [pc EXCEPT ![p] = "cp_close"]
                /\ loc' = [loc EXCEPT ![p] = pools[name]]
                /\ trace' = [trace EXCEPT ![p] = CloseEvents({pools[name]})]
                /\ UNCHANGED result
    /\ UNCHANGED <<opIdx, caught, pend, retryVars>>

\* The pools the registry holds.
Tracked == {pools[n] : n \in DOMAIN pools}

CallCloseAllKeepEntries(p) ==
    /\ pc[p] = "idle"
    /\ call' = [call EXCEPT ![p] = [op |-> "closeAll", name |-> "", config |-> FALSE,
                                    nOps |-> 0, stale |-> Stale]]
    /\ pools' = pools
    /\ objs' = CloseCalled(objs, Tracked)
    /\ trace' = [trace EXCEPT ![p] = CloseEvents(Tracked)]
    /\ pend' = [pend EXCEPT ![p] = Tracked]
    /\ IF Tracked = {}
       THEN /\ pc' = [pc EXCEPT ![p] = "done"]
            /\ result' = [result EXCEPT ![p] = Ok(0)]
       ELSE /\ pc' = [pc EXCEPT ![p] = "ca_wait"]
            /\ UNCHANGED result
    /\ UNCHANGED <<loc, opIdx, caught, retryVars>>

\* closeAllPools() up to its await (line 201): the close hook of every
\* tracked pool runs, then Promise.all awaits the close() promises.  With no
\* pool tracked Promise.all([]) is fulfilled.
CallCloseAll(p) ==
    /\ pc[p] = "idle"
    /\ call' = [call EXCEPT ![p] = [op |-> "closeAll", name |-> "", config |-> FALSE,
                                    nOps |-> 0, stale |-> Stale]]
    /\ pools' = HookDelete(pools, DOMAIN pools)
    /\ objs' = CloseCalled(objs, Tracked)
    /\ trace' = [trace EXCEPT ![p] = CloseEvents(Tracked)]
    /\ pend' = [pend EXCEPT ![p] = Tracked]
    /\ IF Tracked = {}
       THEN /\ pc' = [pc EXCEPT ![p] = "done"]
            /\ result' = [result EXCEPT ![p] = Ok(0)]
       ELSE /\ pc' = [pc EXCEPT ![p] = "ca_wait"]
            /\ UNCHANGED result
    /\ UNCHANGED <<loc, opIdx, caught, retryVars>>

\* Caller p awaits the close() promise of pool i: directly (closePool) or
\* through Promise.all (closeAllPools).
AwaitsClose(p, i) ==
    \/ pc[p] = "cp_close" /\ loc[p] = i
    \/ pc[p] = "ca_wait" /\ i \in pend[p]

\* Whether that await ends when close() of pool i settles: closePool's
\* always; Promise.all's when i is rejected (Promise.all rejects with the
\* first rejection, whatever is still pending) or was the last one pending.
AwaitEnds(p, i, ok) ==
    AwaitsClose(p, i) /\ (pc[p] = "cp_close" \/ ~ok \/ pend[p] = {i})

\* The underlying close() of pool i settles.
CloseSettle(i) ==
    /\ objs[i].close = "called"
    /\ \E ok \in BOOLEAN :
        /\ objs' = [objs EXCEPT ![i].close = IF ok THEN "ok" ELSE "failed"]
        /\ pc' = [p \in Procs |-> IF AwaitEnds(p, i, ok) THEN "done" ELSE pc[p]]
        /\ result' = [p \in Procs |->
                        IF AwaitEnds(p, i, ok)
                        THEN (IF ok THEN Ok(0) ELSE Err(CloseErr(i)))
                        ELSE result[p]]
        /\ pend' = [p \in Procs |->
                        IF AwaitEnds(p, i, ok) THEN {} ELSE pend[p] \ {i}]
        /\ trace' = [p \in Procs |->
                        IF AwaitsClose(p, i)
                        THEN Append(trace[p], <<IF ok THEN "closeOk" ELSE "closeErr", i>>)
                        ELSE trace[p]]
    /\ UNCHANGED <<pools, call, loc, opIdx, caught, retryVars>>

\* -------------------------------------- runCommand, executeWithEntity, bulkInsert
CallRun(p) ==
    \E name \in Names :
        Call(p, [op |-> "run", name |-> name, config |-> FALSE, nOps |-> 0,
                 stale |-> Stale])

\* executeWithEntity (lines 245-253): Object.keys(entity) throws inside the
\* try for a null entity; otherwise runCommand is called and its promise
\* returned without an await.
CallEntity(p) ==
    \E name \in Names, entityOk \in BOOLEAN :
        IF entityOk
        THEN Call(p, [op |-> "entity", name |-> name, config |-> FALSE, nOps |-> 0,
                      stale |-> Stale])
        ELSE /\ pc[p] = "idle"
             /\ pc' = [pc EXCEPT ![p] = "done"]
             /\ call' = [call EXCEPT ![p] = [op |-> "entity", name |-> name,
                            config |-> FALSE, nOps |-> 0, stale |-> Stale]]
             /\ result' = [result EXCEPT ![p] = Err(EntityErr)]
             /\ trace' = [trace EXCEPT ![p] = <<ELog(250)>>]
             /\ UNCHANGED <<poolVars, loc, opIdx, caught, pend, retryVars>>

\* The sequences of at most n elements of S.
SeqsUpTo(S, n) == UNION {[1..k -> S] : k \in 0..n}

\* The column list and the entity lists bulkInsert is called with: up to
\* MaxOps entity objects (one of them lacks a column's property), or a list
\* that ends with a null entity.
ColumnLists == {<<"name", "id">>}
BulkEntities == {Entity([id |-> "1", name |-> "x"]), Entity([id |-> "2"])}
EntityLists ==
    SeqsUpTo(BulkEntities, MaxOps)
        \cup {Append(es, NullEntity) : es \in SeqsUpTo(BulkEntities, 1)}

\* bulkInsert(poolName, tableName, columns, entities).
CallBulk(p) ==
    \E name \in Names, columns \in ColumnLists, entities \in EntityLists :
        Call(p, [op |-> "bulk", name |-> name, config |-> FALSE, nOps |-> Len(entities),
                 stale |-> Stale, columns |-> columns, entities |-> entities])

RunExecDoneRetry(p) ==
    /\ pc[p] = "rc_exec"
    /\ \E ok \in BOOLEAN :
        IF ok
        THEN /\ pc' = [pc EXCEPT ![p] = "done"]
             /\ result' = [result EXCEPT ![p] = Ok(loc[p])]
             /\ trace' = [trace EXCEPT ![p] = Append(@, <<"execOk", 0>>)]
        ELSE /\ Len(trace[p]) < 8
             /\ trace' = [trace EXCEPT ![p] = @ \o <<<<"execErr", 0>>, <<"exec", loc[p]>>>>]
             /\ UNCHANGED <<pc, result>>
    /\ UNCHANGED <<poolVars, call, loc, opIdx, caught, retryVars, pend>>

RunExecDoneSwallow(p) ==
    /\ pc[p] = "rc_exec"
    /\ \E ok \in BOOLEAN :
        /\ pc' = [pc EXCEPT ![p] = "done"]
        /\ result' = [result EXCEPT ![p] = Ok(loc[p])]
        /\ trace' = [trace EXCEPT ![p] =
                        Append(@, IF ok THEN <<"execOk", 0>> ELSE <<"execErr", 0>>)]
    /\ UNCHANGED <<poolVars, call, loc, opIdx, caught, retryVars, pend>>

\* The promise of request[commandType](command) settles.  runCommand
\* returned it without awaiting it (line 223), so a rejection reaches the
\* caller as it is and never enters runCommand's catch block: nothing is
\* logged.
RunExecDone(p) ==
    /\ pc[p] = "rc_exec"
    /\ \E ok \in BOOLEAN :
        /\ pc' = [pc EXCEPT ![p] = "done"]
        /\ result' = [result EXCEPT ![p] = IF ok THEN Ok(loc[p]) ELSE Err(ExecErr)]
        /\ trace' = [trace EXCEPT ![p] =
                        Append(@, IF ok THEN <<"execOk", 0>> ELSE <<"execErr", 0>>)]
    /\ UNCHANGED <<poolVars, call, loc, opIdx, caught, retryVars, pend>>

\* `await request.bulk(table)` settles (lines 267-272).
BulkDone(p) ==
    /\ pc[p] = "bk_bulk"
    /\ \E ok \in BOOLEAN :
        /\ pc' = [pc EXCEPT ![p] = "done"]
        /\ result' = [result EXCEPT ![p] = IF ok THEN Ok(0) ELSE Err(BulkErr)]
        /\ trace' = [trace EXCEPT ![p] =
                        IF ok THEN Append(@, <<"bulkOk", 0>>)
                        ELSE @ \o <<<<"bulkErr", 0>>, ELog(270)>>]
    /\ UNCHANGED <<poolVars, call, loc, opIdx, caught, retryVars, pend>>

\* ------------------------------------------------------ executeTransaction
\* The catch block (lines 294-300) is entered with error e: rollback() is called.
TxCatchNoRollback(p, e, tr) ==
    /\ pc' = [pc EXCEPT ![p] = "done"]
    /\ result' = [result EXCEPT ![p] = Err(e)]
    /\ caught' = [caught EXCEPT ![p] = e]
    /\ trace' = [trace EXCEPT ![p] = Append(tr, ELog(299))]
    /\ UNCHANGED opIdx

TxCatch(p, e, tr) ==
    /\ pc' = [pc EXCEPT ![p] = "tx_rollback"]
    /\ caught' = [caught EXCEPT ![p] = e]
    /\ trace' = [trace EXCEPT ![p] = Append(tr, <<"rollback", 0>>)]
    /\ UNCHANGED <<opIdx, result>>

LoopDoneEarly(p, k) == k >= call[p].nOps

\* The head of the for-of loop (line 284) with k-1 operations done.
LoopDone(p, k) == k > call[p].nOps

\* Lines 284-292 from the loop head at operation k: bind and dispatch
\* operation k (assignParams may throw), or call commit() after the last one.
TxStep(p, k, tr) ==
    IF LoopDone(p, k)
    THEN /\ pc' = [pc EXCEPT ![p] = "tx_commit"]
         /\ trace' = [trace EXCEPT ![p] = Append(tr, <<"commit", 0>>)]
         /\ UNCHANGED <<opIdx, caught, result>>
    ELSE \E bound \in BOOLEAN :
            IF bound
            THEN /\ pc' = [pc EXCEPT ![p] = "tx_op"]
                 /\ opIdx' = [opIdx EXCEPT ![p] = k]
                 /\ trace' = [trace EXCEPT ![p] = Append(tr, <<"op", k>>)]
                 /\ UNCHANGED <<caught, result>>
            ELSE TxCatch(p, BindErr(k), Append(tr, <<"bindErr", k>>))

TxBeginDoneInsideTry(p) ==
    /\ pc[p] = "tx_begin"
    /\ \E ok \in BOOLEAN :
        IF ok
        THEN TxStep(p, 1, Append(trace[p], <<"beginOk", 0>>))
        ELSE TxCatch(p, BeginErr, trace[p] \o <<<<"beginErr", 0>>, ELog(279)>>)
    /\ UNCHANGED <<poolVars, call, loc, retryVars, pend>>

\* `await transaction.begin()` settles (lines 278-281): begin is outside the
\* try block, so its failure leaves executeTransaction at once.
TxBeginDone(p) ==
    /\ pc[p] = "tx_begin"
    /\ \E ok \in BOOLEAN :
        IF ok
        THEN TxStep(p, 1, Append(trace[p], <<"beginOk", 0>>))
        ELSE /\ pc' = [pc EXCEPT ![p] = "done"]
             /\ result' = [result EXCEPT ![p] = Err(BeginErr)]
             /\ trace' = [trace EXCEPT ![p] = trace[p] \o <<<<"beginErr", 0>>, ELog(279)>>]
             /\ UNCHANGED <<opIdx, caught>>
    /\ UNCHANGED <<poolVars, call, loc, retryVars, pend>>

TxOpDoneIgnoreFailure(p) ==
    /\ pc[p] = "tx_op"
    /\ \E ok \in BOOLEAN :
        IF ok
        THEN TxStep(p, opIdx[p] + 1, Append(trace[p], <<"opOk", opIdx[p]>>))
        ELSE TxStep(p, opIdx[p] + 1, trace[p] \o <<<<"opErr", opIdx[p]>>, ELog(288)>>)
    /\ UNCHANGED <<poolVars, call, loc, retryVars, pend>>

\* `await request[op.commandType](op.command)` settles (lines 287-290).
TxOpDone(p) ==
    /\ pc[p] = "tx_op"
    /\ \E ok \in BOOLEAN :
        IF ok
        THEN TxStep(p, opIdx[p] + 1, Append(trace[p], <<"opOk", opIdx[p]>>))
        ELSE TxCatch(p, OpErr(opIdx[p]), trace[p] \o <<<<"opErr", opIdx[p]>>, ELog(288)>>)
    /\ UNCHANGED <<poolVars, call, loc, retryVars, pend>>

TxCommitDoneNoRollback(p) ==
    /\ pc[p] = "tx_commit"
    /\ \E ok \in BOOLEAN :
        /\ pc' = [pc EXCEPT ![p] = "done"]
        /\ result' = [result EXCEPT ![p] = IF ok THEN Ok(0) ELSE Err(CommitErr)]
        /\ trace' = [trace EXCEPT ![p] =
                        Append(@, IF ok THEN <<"commitOk", 0>> ELSE <<"commitErr", 0>>)]
        /\ UNCHANGED <<opIdx, caught>>
    /\ UNCHANGED <<poolVars, call, loc, retryVars, pend>>

\* `await transaction.commit()` settles (lines 292-294): commit is inside
\* the try block, so its failure enters the catch block too.
TxCommitDone(p) ==
    /\ pc[p] = "tx_commit"
    /\ \E ok \in BOOLEAN :
        IF ok
        THEN /\ pc' = [pc EXCEPT ![p] = "done"]
             /\ result' = [result EXCEPT ![p] = Ok(0)]
             /\ trace' = [trace EXCEPT ![p] = Append(@, <<"commitOk", 0>>)]
             /\ UNCHANGED <<opIdx, caught>>
        ELSE TxCatch(p, CommitErr, Append(trace[p], <<"commitErr", 0>>))
    /\ UNCHANGED <<poolVars, call, loc, retryVars, pend>>

RethrownRollbackError(p, rollbackOk) == IF rollbackOk THEN caught[p] ELSE RollbackErr

\* The error executeTransaction throws once rollback() has settled.
Rethrown(p, rollbackOk) == caught[p]

\* `await transaction.rollback().catch(...)` settles (lines 295-300): a
\* rollback error is logged and dropped, the caught error is rethrown.
TxRollbackDone(p) ==
    /\ pc[p] = "tx_rollback"
    /\ \E ok \in BOOLEAN :
        /\ pc' = [pc EXCEPT ![p] = "done"]
        /\ result' = [result EXCEPT ![p] = Err(Rethrown(p, ok))]
        /\ trace' = [trace EXCEPT ![p] =
                        IF ok THEN @ \o <<<<"rollbackOk", 0>>, ELog(299)>>
                        ELSE @ \o <<<<"rollbackErr", 0>>, ELog(296), ELog(299)>>]
    /\ UNCHANGED <<poolVars, call, loc, opIdx, caught, retryVars, pend>>

\* ---------------------------------------------------------- retryOperation
\* Line 234: another attempt is made while retries > 0.
RetryAgainOffByOne(r) == r >= 0

RetryAgain(r) == r > 0

\* Line 237: the recursive call's arguments.
NextRetries(r) == r - 1

NextDelayConstant(d) == d

NextDelay(d) == d * 2

\* retryOperation(operation, n, d) is called: operation() is invoked.
RetryCall(n, d) ==
    /\ rpc = "idle"
    /\ rpc' = "call"
    /\ retries' = n
    /\ delay' = d
    /\ attempts' = 1
    /\ waits' = <<>>
    /\ rInit' = [n |-> n, d |-> d]
    /\ rRes' = 0
    /\ outcomes' = <<>>
    /\ UNCHANGED <<poolVars, procVars>>

RetryOpDoneNoWait ==
    /\ rpc = "call"
    /\ \E ok \in BOOLEAN :
        /\ outcomes' = Append(outcomes, ok)
        /\ IF ok
          THEN rpc' = "ok" /\ rRes' = attempts /\ UNCHANGED <<waits, retries, delay, attempts>>
          ELSE IF RetryAgain(retries)
               THEN /\ rpc' = "call"
                    /\ retries' = NextRetries(retries)
                    /\ delay' = NextDelay(delay)
                    /\ attempts' = attempts + 1
                    /\ UNCHANGED <<rRes, waits>>
               ELSE rpc' = "failed" /\ rRes' = attempts /\ UNCHANGED <<waits, retries, delay, attempts>>
    /\ UNCHANGED <<poolVars, procVars, rInit>>

\* `await operation()` settles (lines 232-241): return its result, or start
\* the timer, or log and rethrow its error.
RetryOpDone ==
    /\ rpc = "call"
    /\ \E ok \in BOOLEAN :
        /\ outcomes' = Append(outcomes, ok)
        /\ IF ok
          THEN rpc' = "ok" /\ rRes' = attempts /\ waits' = waits
          ELSE IF RetryAgain(retries)
               THEN rpc' = "wait" /\ waits' = Append(waits, delay) /\ rRes' = rRes
               ELSE rpc' = "failed" /\ rRes' = attempts /\ waits' = waits
    /\ UNCHANGED <<poolVars, procVars, retries, delay, attempts, rInit>>

\* The timer fires (line 236) and retryOperation calls itself (line 237),
\* which invokes operation() again.
RetryTimer ==
    /\ rpc = "wait"
    /\ rpc' = "call"
    /\ retries' = NextRetries(retries)
    /\ delay' = NextDelay(delay)
    /\ attempts' = attempts + 1
    /\ UNCHANGED <<poolVars, procVars, waits, rInit, rRes, outcomes>>

\* The caller takes the outcome.
RetryReturn ==
    /\ rpc \in {"ok", "failed"}
    /\ rpc' = "idle"
    /\ retries' = 0
    /\ delay' = 0
    /\ attempts' = 0
    /\ waits' = <<>>
    /\ rInit' = [n |-> 0, d |-> 0]
    /\ rRes' = 0
    /\ outcomes' = <<>>
    /\ UNCHANGED <<poolVars, procVars>>

\* ------------------------------------------------------------ specifications
\* After construction: the pools of the configured names are registered,
\* unconnected; no call is in progress.
Init ==
    /\ \E configured \in SUBSET Names :
        /\ pools = Construct(configured, <<>>, <<>>)[1]
        /\ objs = Construct(configured, <<>>, <<>>)[2]
    /\ pc = [p \in Procs |-> "idle"]
    /\ call = [p \in Procs |-> NoCall]
    /\ loc = [p \in Procs |-> 0]
    /\ result = [p \in Procs |-> NoResult]
    /\ trace = [p \in Procs |-> <<>>]
    /\ opIdx = [p \in Procs |-> 0]
    /\ caught = [p \in Procs |-> NoErr]
    /\ pend = [p \in Procs |-> {}]
    /\ rpc = "idle"
    /\ retries = 0
    /\ delay = 0
    /\ attempts = 0
    /\ waits = <<>>
    /\ rInit = [n |-> 0, d |-> 0]
    /\ rRes = 0
    /\ outcomes = <<>>

NextGetPool ==
    \E p \in Procs :
        \/ CallGetPool(p)
        \/ GetPoolEnter(p)
        \/ GetPoolAfterSet(p)
        \/ GetPoolConnectDone(p)
        \/ Return(p)

NextTxOnly ==
    \E p \in TxProcs \cap Procs :
        \/ CallTx(p)
        \/ TxBeginDone(p)
        \/ TxOpDone(p)
        \/ TxCommitDone(p)
        \/ TxRollbackDone(p)

NextTx == NextGetPool \/ NextTxOnly

NextRetry ==
    \/ \E n \in 0..MaxRetries, d \in (0..MaxDelay) \cup {DefaultDelay} : RetryCall(n, d)
    \/ RetryCall(DefaultRetries, DefaultDelay)
    \/ RetryOpDone
    \/ RetryTimer
    \/ RetryReturn

\* setPool, closePool and closeAllPools calls of the managing caller, and
\* close() settling.
NextClose ==
    \/ \E p \in TxProcs \cap Procs :
        \/ CallSetPool(p)
        \/ CallClosePool(p)
        \/ CallCloseAll(p)
        \/ Return(p)
    \/ \E i \in DOMAIN objs : CloseSettle(i)

\* getPool calls running beside them.
NextPoolGet ==
    \E p \in PoolProcs \cap Procs :
        \/ CallGetPool(p)
        \/ GetPoolEnter(p)
        \/ GetPoolAfterSet(p)
        \/ GetPoolConnectDone(p)
        \/ Return(p)

NextPool == NextPoolGet \/ NextClose

\* runCommand, executeWithEntity and bulkInsert calls of the command caller.
NextCmdOnly ==
    \E p \in TxProcs \cap Procs :
        \/ CallRun(p)
        \/ CallEntity(p)
        \/ CallBulk(p)
        \/ RunExecDone(p)
        \/ BulkDone(p)

NextCmd == NextTx \/ NextCmdOnly

Next == NextTx \/ NextRetry \/ NextClose \/ NextCmdOnly

\* Concurrent getPool calls only.
SpecGetPool == Init /\ [][NextGetPool]_vars

\* Concurrent executeTransaction and getPool calls.
SpecTx == Init /\ [][NextTx]_vars

\* retryOperation alone.
SpecRetry == Init /\ [][NextRetry]_vars

\* Concurrent getPool, setPool, closePool and closeAllPools calls.
SpecPool == Init /\ [][NextPool]_vars

\* One caller issuing runCommand, executeWithEntity, bulkInsert and
\* executeTransaction calls, beside concurrent getPool calls.
SpecCmd == Init /\ [][NextCmd]_vars

Spec == Init /\ [][Next]_vars

\* ------------------------------------------------------------- trace helpers
InTrace(p, ev) == \E i \in DOMAIN trace[p] : trace[p][i] = ev

Count(p, ev) == Cardinality({i \in DOMAIN trace[p] : trace[p][i] = ev})

\* Operation k of p's transaction failed: its request was rejected, or
\* binding its parameters threw.
OpFailed(p, k) == InTrace(p, <<"opErr", k>>) \/ InTrace(p, <<"bindErr", k>>)

\* The error object of that failure.
FailureOf(p, k) == IF InTrace(p, <<"opErr", k>>) THEN OpErr(k) ELSE BindErr(k)

IsTx(p) == call[p].op = "tx"

\* The pool objects constructed for a name.
PoolsFor(n) == {i \in DOMAIN objs : objs[i].name = n}

RECURSIVE Pow2(_)
Pow2(k) == IF k <= 0 THEN 1 ELSE 2 * Pow2(k - 1)

\* ---------------------------------------------------------------------- C1
\* C1: with only getPool calls running (SpecGetPool), under every
\* interleaving of their await points and every answer of the driver, at
\* most one pool is ever constructed per name; once a getPool(name, config)
\* call is past its has() test exactly one exists and the registry maps the
\* name to it; every such call that has finished resolved to that pool
\* object, unless its own connect was rejected by the driver.
C1_OnePoolPerName ==
    \A n \in Names :
        /\ Cardinality(PoolsFor(n)) <= 1
        /\ \A p \in Procs :
            (/\ call[p].op = "getPool" /\ call[p].name = n /\ call[p].config
             /\ pc[p] \in {"gp_afterSet", "gp_connect", "done"})
            => /\ Cardinality(PoolsFor(n)) = 1
               /\ Has(n)
               /\ pools[n] \in PoolsFor(n)
               /\ pc[p] = "done" =>
                    \/ result[p] = Ok(pools[n])
                    \/ result[p] = Err(ConnectErr) /\ InTrace(p, <<"connect", pools[n]>>)

\* Two concurrent getPool(name, config) calls for a name without an entry:
\* caller 1 constructed the pool, caller 2 ran during caller 1's await and
\* started the connect, and both resolved to the one pool.
C1_Witness ==
    /\ pc[1] = "done" /\ pc[2] = "done"
    /\ call[1].name = call[2].name
    /\ call[1].config /\ call[2].config
    /\ result[1].status = "ok" /\ result[1] = result[2]
    /\ trace[1] = <<<<"new", result[1].pool>>>>
    /\ trace[2] = <<<<"connect", result[1].pool>>>>

\* ---------------------------------------------------------------------- C2
\* C2: once begin succeeded and operation k failed, commit has not been and
\* is never attempted, rollback has been attempted exactly once, and when
\* that rollback succeeded the call fails with operation k's error.
C2_OpFailureRollsBack ==
    \A p \in Procs : \A k \in 1..MaxOps :
        (IsTx(p) /\ InTrace(p, <<"beginOk", 0>>) /\ OpFailed(p, k))
        => /\ \A j \in 1..(k - 1) : InTrace(p, <<"opOk", j>>)
           /\ ~InTrace(p, <<"commit", 0>>)
           /\ Count(p, <<"rollback", 0>>) = 1
           /\ pc[p] \in {"tx_rollback", "done"}
           /\ (pc[p] = "done" /\ InTrace(p, <<"rollbackOk", 0>>))
                => result[p] = Err(FailureOf(p, k))

\* [A succeeds, B fails], rollback succeeds, the caller has B's error.
C2_Witness ==
    /\ pc[1] = "done"
    /\ call[1].nOps = 2
    /\ InTrace(1, <<"opOk", 1>>)
    /\ InTrace(1, <<"opErr", 2>>)
    /\ InTrace(1, <<"rollbackOk", 0>>)
    /\ result[1] = Err(OpErr(2))

\* ---------------------------------------------------------------------- C3
\* C3: when an operation failed and the rollback failed too, the call fails
\* with the operation's error, never the rollback error; the rollback error
\* is logged (line 296).
C3_RollbackFailureKeepsError ==
    \A p \in Procs : \A k \in 1..MaxOps :
        (IsTx(p) /\ OpFailed(p, k) /\ InTrace(p, <<"rollbackErr", 0>>))
        => /\ pc[p] = "done"
           /\ result[p] = Err(FailureOf(p, k))
           /\ result[p].err # RollbackErr
           /\ InTrace(p, ELog(296))

C3_Witness ==
    /\ pc[1] = "done"
    /\ InTrace(1, <<"opErr", 1>>)
    /\ InTrace(1, <<"rollbackErr", 0>>)
    /\ result[1] = Err(OpErr(1))

\* ---------------------------------------------------------------------- C4
\* C4 as stated: after a failed commit no rollback is attempted and the
\* commit error reaches the caller.
C4_Original ==
    \A p \in Procs :
        (IsTx(p) /\ InTrace(p, <<"commitErr", 0>>))
        => /\ ~InTrace(p, <<"rollback", 0>>)
           /\ pc[p] = "done"
           /\ result[p] = Err(CommitErr)

\* C4 amended: when every operation succeeded and the commit attempt failed,
\* exactly one rollback is attempted after the failed commit, and whatever
\* that rollback does the call fails with the commit error as it is.
C4_CommitFailureRollsBack ==
    \A p \in Procs :
        (IsTx(p) /\ InTrace(p, <<"commitErr", 0>>))
        => /\ \A j \in 1..call[p].nOps : InTrace(p, <<"opOk", j>>)
           /\ \A k \in 1..MaxOps : ~OpFailed(p, k)
           /\ Count(p, <<"rollback", 0>>) = 1
           /\ \E i \in DOMAIN trace[p] :
                /\ i > 1
                /\ trace[p][i] = <<"rollback", 0>>
                /\ trace[p][i - 1] = <<"commitErr", 0>>
           /\ pc[p] \in {"tx_rollback", "done"}
           /\ pc[p] = "done" => result[p] = Err(CommitErr)

\* Both operations succeeded, commit failed, rollback failed as well.
C4_Witness ==
    /\ pc[1] = "done"
    /\ call[1].nOps = 2
    /\ InTrace(1, <<"opOk", 2>>)
    /\ InTrace(1, <<"commitErr", 0>>)
    /\ InTrace(1, <<"rollbackErr", 0>>)
    /\ result[1] = Err(CommitErr)

\* ---------------------------------------------------------------------- C5
\* C5: when begin failed the call is over with the begin error: no
\* operation was bound or dispatched, neither commit nor rollback attempted.
C5_BeginFailurePropagates ==
    \A p \in Procs :
        (IsTx(p) /\ InTrace(p, <<"beginErr", 0>>))
        => /\ pc[p] = "done"
           /\ result[p] = Err(BeginErr)
           /\ \A i \in DOMAIN trace[p] :
                trace[p][i][1] \notin {"op", "bindErr", "commit", "rollback"}

C5_Witness ==
    /\ pc[1] = "done"
    /\ call[1].nOps = 2
    /\ InTrace(1, <<"beginErr", 0>>)
    /\ result[1] = Err(BeginErr)

\* ---------------------------------------------------------------------- C6
\* C6: operations are dispatched in the supplied order, one at a time:
\* operation 1 right after begin succeeded, operation k+1 right after
\* operation k succeeded, each at most once, none beyond the supplied list
\* and none after a failed one; while a request is pending it is the last one
\* dispatched.
C6_SequentialDispatch ==
    \A p \in Procs : \A i \in DOMAIN trace[p] :
        (IsTx(p) /\ trace[p][i][1] = "op")
        => LET k == trace[p][i][2]
           IN /\ k \in 1..call[p].nOps
              /\ i > 1
              /\ trace[p][i - 1] = (IF k = 1 THEN <<"beginOk", 0>> ELSE <<"opOk", k - 1>>)
              /\ Count(p, <<"op", k>>) = 1
              /\ \A j \in 1..(i - 1) : trace[p][j][1] \notin {"opErr", "bindErr"}
              /\ (i = Len(trace[p])) <=> (pc[p] = "tx_op" /\ opIdx[p] = k)

\* Operation 2 is pending after operation 1 succeeded.
C6_Witness ==
    /\ pc[1] = "tx_op"
    /\ opIdx[1] = 2
    /\ trace[1] = <<<<"begin", 0>>, <<"beginOk", 0>>, <<"op", 1>>, <<"opOk", 1>>, <<"op", 2>>>>

\* ---------------------------------------------------------------------- C7
\* C7: commit is attempted at most once, and only after begin succeeded and
\* every supplied operation succeeded; a committed transaction is never
\* rolled back; a finished call whose transaction began attempted a commit
\* or a rollback.
C7_NoPartialCommit ==
    \A p \in Procs :
        IsTx(p)
        => /\ Count(p, <<"commit", 0>>) <= 1
           /\ InTrace(p, <<"commit", 0>>)
                => /\ InTrace(p, <<"beginOk", 0>>)
                   /\ \A j \in 1..call[p].nOps : InTrace(p, <<"opOk", j>>)
                   /\ \A k \in 1..MaxOps : ~OpFailed(p, k)
           /\ InTrace(p, <<"commitOk", 0>>)
                => /\ ~InTrace(p, <<"rollback", 0>>)
                   /\ pc[p] = "done"
                   /\ result[p].status = "ok"
           /\ (pc[p] = "done" /\ InTrace(p, <<"beginOk", 0>>))
                => InTrace(p, <<"commit", 0>>) \/ InTrace(p, <<"rollback", 0>>)
           /\ (pc[p] = "done" /\ result[p].status = "ok")
                => InTrace(p, <<"commitOk", 0>>)

\* Two operations, both succeeded, committed.
C7_Witness ==
    /\ pc[1] = "done"
    /\ result[1].status = "ok"
    /\ trace[1] = <<<<"begin", 0>>, <<"beginOk", 0>>, <<"op", 1>>, <<"opOk", 1>>,
                    <<"op", 2>>, <<"opOk", 2>>, <<"commit", 0>>, <<"commitOk", 0>>>>

\* ---------------------------------------------------------------------- C8
AllFailed == \A i \in DOMAIN outcomes : ~outcomes[i]

\* C8: retryOperation(operation, n, d) never invokes the operation more
\* than n+1 times; it fails exactly when n+1 attempts have failed, and then
\* with the error of the last attempt.
C8_ExhaustedAfterNPlusOne ==
    (rpc # "idle")
    => /\ attempts <= rInit.n + 1
       /\ rpc = "failed"
            => /\ AllFailed
               /\ Len(outcomes) = rInit.n + 1
               /\ attempts = rInit.n + 1
               /\ rRes = attempts
       /\ (AllFailed /\ Len(outcomes) = rInit.n + 1) => rpc = "failed"
       /\ (AllFailed /\ Len(outcomes) < rInit.n + 1) => rpc \in {"call", "wait"}

\* retries = 2, always failing: 3 attempts, then the 3rd error.
C8_Witness ==
    /\ rpc = "failed"
    /\ rInit.n = 2
    /\ outcomes = <<FALSE, FALSE, FALSE>>
    /\ attempts = 3
    /\ rRes = 3

\* ---------------------------------------------------------------------- C9
\* C9: the k-th wait is d * 2^(k-1); every failed attempt but the last
\* allowed one is followed by exactly one wait, and there is no wait after a
\* success or after the final failure.
C9_BackoffDoubles ==
    (rpc # "idle")
    => /\ \A k \in DOMAIN waits : waits[k] = rInit.d * Pow2(k - 1)
       /\ delay = rInit.d * Pow2(attempts - 1)
       /\ Len(waits) = (IF rpc = "wait" THEN attempts ELSE attempts - 1)
       /\ rpc = "wait" => Len(waits) = Len(outcomes)
       /\ rpc \in {"ok", "failed"} => Len(waits) = Len(outcomes) - 1

\* The default call, failing to the end: waits of 100, 200 and 400.
C9_Witness ==
    /\ rpc = "failed"
    /\ rInit = [n |-> DefaultRetries, d |-> DefaultDelay]
    /\ waits = <<100, 200, 400>>

\* --------------------------------------------------------------------- C10
\* C10: when the operation failed j times (j <= retries) and then succeeded,
\* the call returns the result of attempt j+1 after exactly j+1 invocations
\* and j waits; a success is always the last invocation.
C10_SuccessAfterFailures ==
    /\ \A i \in DOMAIN outcomes : outcomes[i] => i = Len(outcomes) /\ rpc = "ok"
    /\ rpc = "ok"
        => /\ outcomes[Len(outcomes)]
           /\ Len(outcomes) <= rInit.n + 1
           /\ attempts = Len(outcomes)
           /\ rRes = Len(outcomes)
           /\ Len(waits) = Len(outcomes) - 1

\* retries = 3, delay = 100, fails twice then succeeds: third attempt, after
\* waits of 100 and 200.
C10_Witness ==
    /\ rpc = "ok"
    /\ rInit = [n |-> 3, d |-> 100]
    /\ outcomes = <<FALSE, FALSE, TRUE>>
    /\ waits = <<100, 200>>
    /\ rRes = 3

\* --------------------------------------------------------------------- C11
\* The number of events of one kind in p's trace.
CountKind(p, kind) == Cardinality({j \in DOMAIN trace[p] : trace[p][j][1] = kind})

\* The call of p is a runCommand call, direct or made by executeWithEntity.
IsRun(p) == call[p].op \in {"run", "entity"}

\* The errors getPool throws.
ResolveErrs == {ConfigErr, TypeErr, ConnectErr}

\* C11: no retry is applied on its own.  A runCommand call connects at most
\* once and executes its command at most once, and a failed execution or a
\* failed pool resolution ends the call with that failure, no execution
\* following it; a bulkInsert call issues at most one bulk request and fails
\* when it fails; every operation of an executeTransaction call is executed
\* at most once, and no operation is executed after a failed one.
C11_NoAutomaticRetry ==
    \A p \in Procs :
        /\ CountKind(p, "connect") <= 1
        /\ IsRun(p)
            => /\ CountKind(p, "exec") <= 1
               /\ InTrace(p, <<"execErr", 0>>)
                    => /\ pc[p] = "done"
                       /\ result[p] = Err(ExecErr)
                       /\ trace[p][Len(trace[p])] = <<"execErr", 0>>
               /\ result[p].err \in ResolveErrs => CountKind(p, "exec") = 0
        /\ call[p].op = "bulk"
            => /\ CountKind(p, "bulk") <= 1
               /\ InTrace(p, <<"bulkErr", 0>>) => pc[p] = "done" /\ result[p] = Err(BulkErr)
               /\ result[p].err \in ResolveErrs => CountKind(p, "bulk") = 0
        /\ IsTx(p)
            => \A k \in 1..MaxOps :
                /\ Count(p, <<"op", k>>) <= 1
                /\ OpFailed(p, k)
                    => /\ pc[p] \in {"tx_rollback", "done"}
                       /\ \A k2 \in (k + 1)..MaxOps : ~InTrace(p, <<"op", k2>>)
                /\ result[p].err \in ResolveErrs => CountKind(p, "op") = 0

\* A runCommand call connected its pool, executed its command once, and
\* failed with the execution's error.
C11_Witness ==
    \E p \in Procs :
        /\ call[p].op = "run"
        /\ pc[p] = "done"
        /\ result[p] = Err(ExecErr)
        /\ CountKind(p, "connect") = 1
        /\ CountKind(p, "exec") = 1

\* --------------------------------------------------------------------- C12
\* Caller p's getPool call, made without a config for a name that has no
\* entry, takes its step.
C12_Case(p) ==
    /\ call[p].op = "getPool"
    /\ pc[p] = "gp_enter"
    /\ pc'[p] # "gp_enter"
    /\ ~call[p].config
    /\ ~Has(call[p].name)

\* C12: getPool(name) without a config argument, for a name the registry
\* has no entry for, fails with the configuration error in that very step:
\* no pool object is constructed, no connect is started (the call's only
\* event is the error log of getPool's catch) and the registry is unchanged.
C12_MissingConfigFails ==
    [][\A p \in Procs :
        C12_Case(p)
            => /\ pc'[p] = "done"
               /\ result'[p] = Err(ConfigErr)
               /\ trace'[p] = <<ELog(186)>>
               /\ pools' = pools
               /\ objs' = objs]_vars

\* A getPool call without config failed with the configuration error on a
\* name whose pool had been closed.
C12_Witness ==
    \E p \in Procs :
        /\ call[p].op = "getPool"
        /\ ~call[p].config
        /\ pc[p] = "done"
        /\ result[p] = Err(ConfigErr)
        /\ trace[p] = <<ELog(186)>>
        /\ ~Has(call[p].name)
        /\ \E i \in Stale : objs[i].name = call[p].name

\* --------------------------------------------------------------------- C13
\* Caller p calls closePool(n).
C13_Called(p, n) ==
    /\ pc[p] = "idle"
    /\ call'[p].op = "closePool"
    /\ call'[p].name = n

\* C13: closePool(name) for a name without an entry fails with the not-found
\* error, calls no close() and leaves the registry and every pool as they
\* were.  For a name with an entry, the call removes the entry and calls the
\* underlying close() of the pool the entry held, of that pool only; the
\* call ends when that close() has settled, with its error when it failed,
\* and the closed pool is not in the registry then.
C13_ClosePool ==
    [][\A p \in Procs :
        /\ \A n \in Names :
            C13_Called(p, n)
                => IF ~Has(n)
                   THEN /\ pc'[p] = "done"
                        /\ result'[p] = Err(NotFoundErr)
                        /\ trace'[p] = <<>>
                        /\ pools' = pools
                        /\ objs' = objs
                   ELSE /\ pc'[p] = "cp_close"
                        /\ loc'[p] = pools[n]
                        /\ n \notin DOMAIN pools'
                        /\ \A m \in DOMAIN pools \ {n} :
                                m \in DOMAIN pools' /\ pools'[m] = pools[m]
                        /\ objs[pools[n]].close = "no"
                        /\ objs'[pools[n]].close = "called"
                        /\ \A i \in DOMAIN objs \ {pools[n]} : objs'[i] = objs[i]
        /\ pc[p] = "cp_close" /\ pc'[p] = "done"
            => /\ objs[loc[p]].close = "called"
               /\ objs'[loc[p]].close \in {"ok", "failed"}
               /\ result'[p] = IF objs'[loc[p]].close = "ok"
                               THEN Ok(0) ELSE Err(CloseErr(loc[p]))
               /\ \A n \in DOMAIN pools' : pools'[n] # loc[p]]_vars

\* A closePool call on a registered name has completed: its pool is closed
\* and the name has no entry.
C13_Witness ==
    \E p \in Procs :
        /\ call[p].op = "closePool"
        /\ pc[p] = "done"
        /\ result[p] = Ok(0)
        /\ objs[loc[p]].close = "ok"
        /\ objs[loc[p]].name = call[p].name
        /\ ~Has(call[p].name)

\* --------------------------------------------------------------------- C14
\* Caller p's getPool(name, config) call, for a name without an entry, takes
\* its first step.
C14_Case(p) ==
    /\ call[p].op = "getPool"
    /\ pc[p] = "gp_enter"
    /\ pc'[p] # "gp_enter"
    /\ call[p].config
    /\ ~Has(call[p].name)

\* What a finished getPool call has delivered: a pool that was not closed
\* when the call began, connected unless it has been closed since; and the
\* only failures of a call with config are a failed connect and the loss of
\* the entry to a concurrent call.
C14_Delivered ==
    \A p \in Procs :
        call[p].op = "getPool" /\ pc[p] = "done"
            => IF result[p].status = "ok"
               THEN /\ result[p].pool \notin call[p].stale
                    /\ objs[result[p].pool].close = "no" => objs[result[p].pool].connected
               ELSE call[p].config => result[p].err \in {ConnectErr, TypeErr}

\* C14: once closePool(name) has removed the entry, getPool(name, config)
\* constructs a new pool object and registers it under name, and the pool a
\* getPool call returns is connected and is never a pool that was closed
\* before the call.
C14_FreshPoolAfterClose ==
    [][/\ \A p \in Procs :
            C14_Case(p)
                => /\ Len(objs') = Len(objs) + 1
                   /\ objs'[Len(objs')] = NewPool(call[p].name)
                   /\ pools'[call[p].name] = Len(objs')
                   /\ pc'[p] = "gp_afterSet"
       /\ C14_Delivered']_vars

\* After a completed close of the name's pool, a getPool(name, config) call
\* constructed a new pool, connected it and returned it.
C14_Witness ==
    \E p \in Procs :
        /\ call[p].op = "getPool"
        /\ call[p].config
        /\ pc[p] = "done"
        /\ result[p].status = "ok"
        /\ \E i \in call[p].stale : objs[i].name = call[p].name /\ objs[i].close = "ok"
        /\ trace[p] = <<<<"new", result[p].pool>>, <<"connect", result[p].pool>>>>
        /\ objs[result[p].pool].connected

\* --------------------------------------------------------------------- C15
\* C15: no zombie entry.  In every reachable state the registry holds no
\* pool whose underlying close() has been called, whether that close is
\* still in flight or has settled.
C15_NoZombieEntry ==
    \A n \in DOMAIN pools : objs[pools[n]].close = "no"

\* A close is in flight while another caller is inside getPool, and the name
\* of the closing pool is registered again, to another pool.
C15_Witness ==
    \E i \in DOMAIN objs :
        /\ objs[i].close = "called"
        /\ Has(objs[i].name)
        /\ pools[objs[i].name] # i
        /\ \E p \in Procs : pc[p] \in {"gp_afterSet", "gp_connect"}

\* --------------------------------------------------------------------- C16
\* The pools whose close() caller p's closeAllPools call has called.
ClosedBy(p) == {i \in DOMAIN objs : InTrace(p, <<"close", i>>)}

\* C16: closeAllPools does not return, with a result or with an error,
\* before the close of every pool it closes has finished, and the error it
\* fails with reports every close that failed.
C16_WaitsForAll ==
    \A p \in Procs :
        call[p].op = "closeAll" /\ pc[p] = "done"
            => /\ \A i \in ClosedBy(p) : objs[i].close \in {"ok", "failed"}
               /\ \A i \in ClosedBy(p) :
                    objs[i].close = "failed" => result[p] = Err(CloseErr(i))

\* --------------------------------------------------------------------- C17
\* The pools created for name n whose close() has not been called.
Live(n) == {i \in PoolsFor(n) : objs[i].close = "no"}

\* C17: for every name at most one pool created for it is not closed, and
\* that pool is the one the registry maps the name to.
C17_OneLivePoolPerName ==
    \A n \in Names :
        /\ Cardinality(Live(n)) <= 1
        /\ \A i \in Live(n) : Has(n) /\ pools[n] = i

\* --------------------------------------------------------------------- C18
\* C18: a setPool call with a missing name or a missing config fails with
\* the configuration error, constructs no pool and leaves the registry as
\* it was.
C18_FailedSetPoolKeepsRegistry ==
    [][\A p \in Procs :
        /\ pc[p] = "idle"
        /\ call'[p].op = "setPool"
        /\ SetPoolThrows(call'[p].name, call'[p].config)
        => /\ pc'[p] = "done"
           /\ result'[p] = Err(ConfigErr)
           /\ objs' = objs
           /\ pools' = pools]_vars

\* --------------------------------------------------------------------- C19
\* C19: runCommand never swallows an error.  A finished runCommand call is
\* in exactly one of four cases: pool resolution failed, the call fails with
\* that error and no request was bound or executed; parameter binding
\* failed, the call fails with that error and nothing was executed; the
\* execution failed and the call fails with its error; the execution
\* succeeded and the call returns its result.
C19_RunCommandPropagates ==
    \A p \in Procs :
        call[p].op = "run" /\ pc[p] = "done"
            => IF InTrace(p, <<"execOk", 0>>)
               THEN result[p] = Ok(loc[p]) /\ InTrace(p, <<"exec", loc[p]>>)
               ELSE IF InTrace(p, <<"execErr", 0>>)
               THEN result[p] = Err(ExecErr)
               ELSE IF InTrace(p, <<"bindErr", 0>>)
               THEN result[p] = Err(BindErr(0)) /\ CountKind(p, "exec") = 0
               ELSE /\ result[p].status = "err"
                    /\ result[p].err \in ResolveErrs
                    /\ CountKind(p, "exec") = 0

\* A runCommand call found its pool connected, and its execution failed: the
\* call failed with the execution's error.
C19_Witness ==
    \E p \in Procs :
        /\ call[p].op = "run"
        /\ pc[p] = "done"
        /\ trace[p] = <<<<"exec", loc[p]>>, <<"execErr", 0>>>>
        /\ result[p] = Err(ExecErr)

\* --------------------------------------------------------------------- C20
\* The caller's operation is one of the four command operations.
IsCommand(p) == call[p].op \in {"run", "entity", "bulk", "tx"}

\* An error-level log event is in p's trace.
ErrorLogged(p) == CountKind(p, "elog") > 0

\* C20: whenever a runCommand, executeWithEntity, bulkInsert or
\* executeTransaction call has failed, an error-level log event was emitted
\* during the call.
C20_FailureLogged ==
    \A p \in Procs :
        IsCommand(p) /\ pc[p] = "done" /\ result[p].status = "err" => ErrorLogged(p)

\* --------------------------------------------------------------------- C21
\* The tables caller p's bulkInsert call has handed to request.bulk.
BulkTables(p) == {trace[p][j][2] : j \in {k \in DOMAIN trace[p] : trace[p][k][1] = "bulk"}}

\* C21: a bulkInsert call with N entity objects issues one bulk request and
\* no more, whatever N is; the table of that request has N rows, row i made
\* from entity i, with one cell per declared column, cell c holding the
\* entity's value for column c.  With N = 0 the request is issued with zero
\* rows.  Once the pool is resolved the call fails only when the driver
\* rejects the bulk request, and it succeeds only after one bulk request.
C21_BulkInsertTable ==
    \A p \in Procs :
        call[p].op = "bulk"
            => LET columns == call[p].columns
                   entities == call[p].entities
               IN /\ CountKind(p, "bulk") <= 1
                  /\ \A rows \in BulkTables(p) :
                        /\ Len(rows) = Len(entities)
                        /\ \A i \in DOMAIN rows :
                            /\ Len(rows[i]) = Len(columns)
                            /\ \A c \in DOMAIN columns :
                                rows[i][c] = Cell(entities[i], columns[c])
                  /\ pc[p] = "bk_bulk" => CountKind(p, "bulk") = 1
                  /\ pc[p] = "done" /\ (\A i \in DOMAIN entities : ~entities[i].null)
                        => \/ result[p].err \in ResolveErrs /\ CountKind(p, "bulk") = 0
                           \/ result[p] \in {Ok(0), Err(BulkErr)} /\ CountKind(p, "bulk") = 1

\* A bulkInsert call with two entities, the second lacking the first
\* column, has succeeded with one request of two rows in entity order.
C21_Witness ==
    \E p \in Procs :
        /\ call[p].op = "bulk"
        /\ pc[p] = "done"
        /\ result[p] = Ok(0)
        /\ call[p].entities = <<Entity([id |-> "1", name |-> "x"]), Entity([id |-> "2"])>>
        /\ BulkTables(p) = {<<<<"x", "1">>, <<Undefined, "2">>>>}

\* --------------------------------------------------------------------- C22
\* Caller p takes a step of a runCommand call on the pool name n.
C22_Step(p, n) ==
    /\ pc'[p] # pc[p]
    /\ \/ IsRun(p) /\ call[p].name = n
       \/ pc[p] = "idle" /\ call'[p].op \in {"run", "entity"} /\ call'[p].name = n

\* C22: a runCommand(poolName, ...) call touches the pool registered under
\* poolName only.  None of its steps changes the registry or constructs a
\* pool, the only pool object a step changes is the one registered under
\* poolName, and every connect and every request of the call is made on
\* that pool.
C22_RunCommandFrame ==
    [][\A p \in Procs : \A n \in Names :
        C22_Step(p, n)
            => /\ pools' = pools
               /\ Len(objs') = Len(objs)
               /\ \A i \in DOMAIN objs :
                    objs'[i] # objs[i] => Has(n) /\ i = pools[n]
               /\ \A j \in DOMAIN trace'[p] :
                    trace'[p][j][1] \in {"connect", "exec"}
                        => Has(n) /\ trace'[p][j][2] = pools[n]]_vars

\* A runCommand call on readPool connected readPool's pool and ran its one
\* request on it, while writePool's pool was never connected.
C22_Witness ==
    \E p \in Procs :
        /\ call[p].op = "run"
        /\ call[p].name = "readPool"
        /\ pc[p] = "done"
        /\ Has("readPool") /\ Has("writePool")
        /\ result[p] = Ok(pools["readPool"])
        /\ trace[p] = << <<"connect", pools["readPool"]>>, <<"exec", pools["readPool"]>>,
                         <<"execOk", 0>> >>
        /\ ~objs[pools["writePool"]].connected
        /\ ~objs[pools["writePool"]].connecting

\* --------------------------------------------------------------------- C23
\* The callers whose connect() on pool i is in flight.
Connecting(i) == {p \in Procs : pc[p] = "gp_connect" /\ loc[p] = i}

\* Caller p's getPool reaches lines 180-184 in this step, with an entry for
\* its name in the registry.
C23_Resolves(p) ==
    /\ pc[p] \in {"gp_enter", "gp_afterSet"}
    /\ pc'[p] \notin {"gp_enter", "gp_afterSet"}
    /\ Has(call[p].name)

\* C23: getPool calls connect() on the pool it resolved exactly when that
\* pool is neither connected nor connecting.  So at every moment at most
\* one connect is in flight per pool, the pool is marked connecting exactly
\* while one is, and no connect is in flight on a connected pool.
C23_ConnectOnlyWhenIdle ==
    [][/\ \A p \in Procs :
            C23_Resolves(p)
                => LET i == pools[call[p].name]
                   IN (~objs[i].connected /\ ~objs[i].connecting)
                        <=> /\ pc'[p] = "gp_connect"
                            /\ loc'[p] = i
                            /\ trace'[p] = Append(trace[p], <<"connect", i>>)
       /\ \A p \in Procs : pc[p] = pc'[p] \/ pc'[p] # "gp_connect" \/ C23_Resolves(p)
       /\ \A i \in DOMAIN objs' :
            /\ Cardinality(Connecting(i)') <= 1
            /\ objs'[i].connecting <=> Connecting(i)' # {}
            /\ objs'[i].connected => Connecting(i)' = {}]_vars

\* Two getPool calls for the same name interleaved: the first has its
\* connect in flight, the second resolved the same pool and started none.
C23_Witness ==
    \E p, q \in Procs :
        /\ p # q
        /\ call[p].op = "getPool" /\ call[q].op = "getPool"
        /\ call[p].name = call[q].name
        /\ pc[p] = "gp_connect"
        /\ pc[q] = "done"
        /\ result[q] = Ok(loc[p])
        /\ CountKind(q, "connect") = 0
        /\ objs[loc[p]].connecting

\* --------------------------------------------------------------------- C24
\* Caller p's getPool returns pool i in this step: a getPool call ends with
\* its result, or runCommand, bulkInsert or executeTransaction goes on with
\* the pool.
C24_Returns(p, i) ==
    /\ pc[p] \in {"gp_enter", "gp_afterSet", "gp_connect"}
    /\ loc'[p] = i
    /\ \/ call[p].op = "getPool" /\ pc'[p] = "done" /\ result'[p] = Ok(i)
       \/ pc'[p] \in {"rc_exec", "bk_bulk", "tx_begin"}

\* C24: whenever getPool returns a pool, that pool is connected at that
\* moment.
C24_ReturnedPoolConnected ==
    [][\A p \in Procs : \A i \in DOMAIN objs :
        C24_Returns(p, i) => objs'[i].connected]_vars

\* --------------------------------------------------------------------- C25
\* What holds of the registry once a close has been started: the pool a
\* closePool call closed is not registered, also when its close failed, and
\* an entry its name has then is a pool constructed later; none of the
\* pools a closeAllPools call closed is registered, while it waits and
\* after it returned or failed.
C25_Removed ==
    \A p \in Procs :
        /\ call[p].op = "closePool" /\ pc[p] \in {"cp_close", "done"} /\ loc[p] # 0
            => /\ loc[p] \notin Tracked
               /\ Has(call[p].name) => pools[call[p].name] > loc[p]
        /\ call[p].op = "closeAll" /\ pc[p] \in {"ca_wait", "done"}
            => ClosedBy(p) \cap Tracked = {}

\* C25: closePool and closeAllPools remove the registry entry of every pool
\* they close, whether the underlying close succeeds or fails: closeAllPools
\* closes all the pools tracked when it is called and leaves the registry
\* empty at that moment, and a closed pool is never registered afterwards.
C25_EntryRemovedOnFailure ==
    [][/\ \A p \in Procs :
            pc[p] = "idle" /\ call'[p].op = "closeAll"
                => /\ ClosedBy(p)' = Tracked
                   /\ pools' = <<>>
       /\ C25_Removed']_vars

\* A closePool call failed because the underlying close failed, and its
\* name has no entry.
C25_Witness ==
    \E p \in Procs :
        /\ call[p].op = "closePool"
        /\ pc[p] = "done"
        /\ result[p] = Err(CloseErr(loc[p]))
        /\ objs[loc[p]].close = "failed"
        /\ ~Has(call[p].name)

\* --------------------------------------------------------------------- C26
\* Caller p's connect() fails in this step.
C26_ConnectFails(p) ==
    /\ pc[p] = "gp_connect"
    /\ pc'[p] = "done"
    /\ result'[p].status = "err"

\* Caller p's getPool call, made without a config, finds in this step its
\* name registered to a pool that is neither connected nor connecting.
C26_Retries(p) ==
    /\ call[p].op = "getPool"
    /\ ~call[p].config
    /\ pc[p] = "gp_enter"
    /\ pc'[p] # "gp_enter"
    /\ Has(call[p].name)
    /\ ~objs[pools[call[p].name]].connected
    /\ ~objs[pools[call[p].name]].connecting

\* C26: when the connect of a getPool call fails, the call fails with the
\* connect error and the pool stays registered under its name, not
\* connected and not connecting; a later getPool(name) without config
\* constructs nothing and starts a new connect on the registered pool.
C26_HealsAfterFailedConnect ==
    [][\A p \in Procs :
        /\ C26_ConnectFails(p)
            => /\ result'[p] = Err(ConnectErr)
               /\ pools' = pools
               /\ Has(call[p].name)
               /\ pools[call[p].name] = loc[p]
               /\ objs'[loc[p]] = NewPool(call[p].name)
        /\ C26_Retries(p)
            => /\ pc'[p] = "gp_connect"
               /\ loc'[p] = pools[call[p].name]
               /\ pools' = pools
               /\ Len(objs') = Len(objs)
               /\ trace'[p] = <<<<"connect", pools[call[p].name]>>>>]_vars

\* A getPool call failed with the connect error; a later getPool call for
\* the same name, without config, is connecting the same pool object again.
C26_Witness ==
    \E p, q \in Procs :
        /\ call[p].op = "getPool" /\ call[q].op = "getPool"
        /\ call[p].name = call[q].name
        /\ pc[p] = "done"
        /\ result[p] = Err(ConnectErr)
        /\ ~call[q].config
        /\ pc[q] = "gp_connect"
        /\ loc[q] = loc[p]
        /\ trace[q] = <<<<"connect", loc[p]>>>>

====
